---- MODULE Spec2Model ----
(***************************************************************************)
(* E-Procurement backend (src/main.py): purchase requests, purchase        *)
(* orders, goods receipts, inventory and notifications kept in a document  *)
(* store.  Every handler is a sequence of store operations; one step of    *)
(* the model is one store operation together with the local computation    *)
(* that follows it.  A handler invocation occupies a process slot from the *)
(* arrival of its request to its response.                                 *)
(***************************************************************************)
EXTENDS Integers, Sequences, FiniteSets, TLC

\* ---------------------------------------------------------------- bounds
MaxDocs == 4        \* purchase requests + purchase orders + goods receipts created
NumProcs == 2       \* handler invocations that may be in progress together

\* How the documents split: at most half of them purchase requests, at most
\* half purchase orders, and all but a purchase request and its order receipts.
MaxPR == MaxDocs \div 2
MaxPO == MaxDocs \div 2
MaxGR == MaxDocs - 2

Procs == 1..NumProcs
SeqProcs == {1}

\* ---------------------------------------------------------------- values
\* An id is <<collection, n>>: the n-th document inserted in the collection.
\* BadId is a string ObjectId() rejects; NoId is Python's None in an id field.
BadId == <<"bad", 0>>
NoId == <<"none", 0>>
None == "None"
NoDoc == [none |-> TRUE]

PRLine(sku, qty) == [sku |-> sku, name |-> "item", qty |-> qty, uom |-> "pcs"]
GRLine(sku, qty) == [sku |-> sku, name |-> "item", qty_received |-> qty, uom |-> "pcs"]

\* Request bodies.  PRLineIn and GRLineIn put no constraint on qty and
\* qty_received, nor PRCreate and GRCreate on the length of lines.
PRLinesIn == {<<>>, <<PRLine("A", 2)>>, <<PRLine("A", 0), PRLine("B", 3)>>}
GRLinesIn == {<<>>, <<GRLine("A", 1)>>, <<GRLine("A", 2), GRLine("B", 1)>>,
              <<GRLine("B", -1)>>}
Skus == {"A", "B"}

Employee == <<"user", 1>>
Manager == <<"user", 2>>
Purchaser == <<"user", 3>>
Supplier1 == <<"supplier", 1>>

\* Ids a client may send: the collection's own ids, an id of another
\* collection (well formed, names nothing here) and a malformed one.
UserIdsIn == {Employee, Manager, BadId}
SupplierIdsIn == {Supplier1, Employee, BadId}
PrIdsIn == {<<"purchaserequest", n>> : n \in 1..MaxPR} \cup {Employee, BadId}
PoIdsIn == {<<"purchaseorder", n>> : n \in 1..MaxPO} \cup {Employee, BadId}
ManagerIdsIn == {Manager, Employee}
ReasonsIn == {None, "budget"}

VARIABLES
    user,             \* collection "user": id -> document
    supplier,         \* collection "supplier": id -> document
    item,             \* collection "item": sequence of documents
    inventory,        \* collection "inventory": sequence of documents
    purchaserequest,  \* collection "purchaserequest": sequence, _id by position
    purchaseorder,    \* collection "purchaseorder"
    goodsreceipt,     \* collection "goodsreceipt"
    notification,     \* collection "notification"
    pc,               \* pc[p]: the store operation process p performs next
    req,              \* req[p]: the request process p is handling
    loc,              \* loc[p]: the handler's local variables
    resp,             \* the response the last step returned, NoResp if none
    overlap           \* history: purchase requests for which a decide_pr request
                      \* arrived while another decide_pr on it was in progress

db == <<user, supplier, item, inventory, purchaserequest, purchaseorder, goodsreceipt,
        notification>>
vars == <<user, supplier, item, inventory, purchaserequest, purchaseorder,
          goodsreceipt, notification, pc, req, loc, resp, overlap>>

NoReq == [op |-> "none"]
NoLoc == [doc |-> NoDoc, new_id |-> NoId, i |-> 0, total |-> 0, emp |-> NoId]
NoResp == [p |-> 0, code |-> 0, detail |-> "", id |-> NoId]

\* ---------------------------------------------------------------- store
oid(id) == id[1] # "bad"

\* find_one({"_id": id}) in a collection kept as a sequence
Found(coll, name, id) == id[1] = name /\ id[2] \in 1..Len(coll)

\* create_document: insert, return the new id
NewId(coll, name) == <<name, Len(coll) + 1>>

\* update_one({"_id": id}, {"$set": fields})
SetFields(coll, id, fields) ==
    [coll EXCEPT ![id[2]] =
        [f \in DOMAIN @ |-> IF f \in DOMAIN fields THEN fields[f] ELSE @[f]]]

Notif(to, role, title, ltype, lid) ==
    [to_user_id |-> to, role |-> role, title |-> title,
     link_type |-> ltype, link_id |-> lid, read |-> FALSE]

RECURSIVE SumQty(_)
SumQty(lines) ==
    IF lines = <<>> THEN 0 ELSE lines[1].qty + SumQty(Tail(lines))

RECURSIVE SumReceived(_)
SumReceived(lines) ==
    IF lines = <<>> THEN 0 ELSE lines[1].qty_received + SumReceived(Tail(lines))

\* total_received over db["goodsreceipt"].find({"po_id": po_id})
RECURSIVE TotalReceived(_, _)
TotalReceived(grs, po_id) ==
    IF grs = <<>> THEN 0
    ELSE (IF grs[1].po_id = po_id THEN SumReceived(grs[1].lines) ELSE 0)
         + TotalReceived(Tail(grs), po_id)

\* update_one({"sku": sku}, {"$inc": {"on_hand": q}, "$setOnInsert": {"uom": uom}},
\* upsert=True): the first document with that sku, or a new one.
Upsert(inv, sku, q, uom) ==
    IF \E k \in 1..Len(inv) : inv[k].sku = sku
    THEN LET k == CHOOSE j \in 1..Len(inv) :
                    /\ inv[j].sku = sku
                    /\ \A h \in 1..(j - 1) : inv[h].sku # sku
         IN  [inv EXCEPT ![k].on_hand = @ + q]
    ELSE Append(inv, [sku |-> sku, on_hand |-> q, uom |-> uom])

\* ---------------------------------------------------------------- handler frame
Idle(p) == pc[p] = "idle"

\* No invocation of one of the operations in ops is in progress.
Quiet(ops) == \A q \in Procs : req[q].op \notin ops

\* Documents created so far and about to be created by handlers in progress.
Creating(op) == Cardinality({q \in Procs : req[q].op = op /\ loc[q].new_id = NoId})
Budget(coll, op, max) ==
    /\ Len(coll) + Creating(op) < max
    /\ Len(purchaserequest) + Len(purchaseorder) + Len(goodsreceipt)
         + Creating("create_pr") + Creating("create_po") + Creating("create_gr") < MaxDocs

\* No invocation of op that names purchase request id is in progress.
QuietOn(op, id) == \A q \in Procs : req[q].op = op => req[q].pr_id # id

Recv(p, r, label) ==
    /\ Idle(p)
    /\ pc' = [pc EXCEPT ![p] = label]
    /\ req' = [req EXCEPT ![p] = r]
    /\ resp' = NoResp
    /\ overlap' = IF r.op = "decide_pr" /\ ~QuietOn("decide_pr", r.pr_id)
                  THEN overlap \cup {r.pr_id} ELSE overlap
    /\ UNCHANGED <<db, loc>>

Goto(p, label) ==
    /\ pc' = [pc EXCEPT ![p] = label]
    /\ resp' = NoResp
    /\ UNCHANGED overlap

Respond(p, code, detail, id) ==
    /\ pc' = [pc EXCEPT ![p] = "idle"]
    /\ req' = [req EXCEPT ![p] = NoReq]
    /\ loc' = [loc EXCEPT ![p] = NoLoc]
    /\ resp' = [p |-> p, code |-> code, detail |-> detail, id |-> id]
    /\ UNCHANGED overlap

Raise(p, code, detail) ==
    /\ Respond(p, code, detail, NoId)
    /\ UNCHANGED db

Init ==
    /\ user = [u \in {Employee, Manager, Purchaser} |->
                 [role |-> CASE u = Employee -> "employee"
                             [] u = Manager -> "manager"
                             [] OTHER -> "purchasing",
                  is_active |-> TRUE]]
    /\ supplier = [s \in {Supplier1} |-> [code |-> "S1"]]
    /\ item = <<>>
    /\ inventory = <<>>
    /\ purchaserequest = <<>>
    /\ purchaseorder = <<>>
    /\ goodsreceipt = <<>>
    /\ notification = <<>>
    /\ pc = [p \in Procs |-> "idle"]
    /\ req = [p \in Procs |-> NoReq]
    /\ loc = [p \in Procs |-> NoLoc]
    /\ resp = NoResp
    /\ overlap = {}

\* ---------------------------------------------------------------- create_pr
CreatePr(p, e, m, ls) ==
    /\ Budget(purchaserequest, "create_pr", MaxPR)
    /\ Recv(p, [op |-> "create_pr", employee_id |-> e, manager_id |-> m,
                lines |-> ls], "pr_find_emp")

PrFindEmp(p) ==
    /\ pc[p] = "pr_find_emp"
    /\ IF ~oid(req[p].employee_id)
       THEN Raise(p, 400, "Invalid id format")
       ELSE IF ~(req[p].employee_id \in DOMAIN user
                 /\ user[req[p].employee_id].role = "employee")
       THEN Raise(p, 400, "Invalid employee_id")
       ELSE Goto(p, "pr_find_mgr") /\ UNCHANGED <<db, req, loc>>

\* Mutant of PrFindMgr: any existing user is accepted as the manager.
PrFindMgr_AnyRole(p) ==
    /\ pc[p] = "pr_find_mgr"
    /\ IF ~oid(req[p].manager_id)
       THEN Raise(p, 400, "Invalid id format")
       ELSE IF req[p].manager_id \notin DOMAIN user
       THEN Raise(p, 400, "Invalid manager_id")
       ELSE Goto(p, "pr_insert") /\ UNCHANGED <<db, req, loc>>

PrFindMgr(p) ==
    /\ pc[p] = "pr_find_mgr"
    /\ IF ~oid(req[p].manager_id)
       THEN Raise(p, 400, "Invalid id format")
       ELSE IF ~(req[p].manager_id \in DOMAIN user
                 /\ user[req[p].manager_id].role = "manager")
       THEN Raise(p, 400, "Invalid manager_id")
       ELSE Goto(p, "pr_insert") /\ UNCHANGED <<db, req, loc>>

PrDoc(r) ==
    [employee_id |-> r.employee_id, manager_id |-> r.manager_id, lines |-> r.lines,
     status |-> "submitted", approved_by |-> NoId, approved_at |-> None,
     rejected_reason |-> None, po_id |-> NoId]

PrInsert(p) ==
    /\ pc[p] = "pr_insert"
    /\ purchaserequest' = Append(purchaserequest, PrDoc(req[p]))
    /\ loc' = [loc EXCEPT ![p].new_id = NewId(purchaserequest, "purchaserequest")]
    /\ Goto(p, "pr_notify")
    /\ UNCHANGED <<user, supplier, item, inventory, purchaseorder, goodsreceipt,
                   notification, req>>

PrNotify(p) ==
    /\ pc[p] = "pr_notify"
    /\ notification' = Append(notification,
          Notif(req[p].manager_id, None, "New Purchase Request", "PR", loc[p].new_id))
    /\ Respond(p, 200, "", loc[p].new_id)
    /\ UNCHANGED <<user, supplier, item, inventory, purchaserequest, purchaseorder,
                   goodsreceipt>>

\* ---------------------------------------------------------------- decide_pr
DecidePr(p, id, m, a, rr) ==
    Recv(p, [op |-> "decide_pr", pr_id |-> id, manager_id |-> m,
             approve |-> a, rejected_reason |-> rr], "decide_find")

\* Mutants of DecideChecks: the status check left out; the status check
\* made before the manager check.
DecideChecks_NoStatus(found, pr_doc, manager_id) ==
    IF ~found THEN <<404, "PR not found">>
    ELSE IF pr_doc.manager_id # manager_id
    THEN <<403, "Manager not assigned to this PR">>
    ELSE <<0, "">>

DecideChecks_StatusFirst(found, pr_doc, manager_id) ==
    IF ~found THEN <<404, "PR not found">>
    ELSE IF pr_doc.status \notin {"submitted"}
    THEN <<400, "PR is not pending approval">>
    ELSE IF pr_doc.manager_id # manager_id
    THEN <<403, "Manager not assigned to this PR">>
    ELSE <<0, "">>

\* The checks of decide_pr on the document it read: <<code, detail>>, code 0 = pass.
DecideChecks(found, pr_doc, manager_id) ==
    IF ~found THEN <<404, "PR not found">>
    ELSE IF pr_doc.manager_id # manager_id
    THEN <<403, "Manager not assigned to this PR">>
    ELSE IF pr_doc.status \notin {"submitted"}
    THEN <<400, "PR is not pending approval">>
    ELSE <<0, "">>

DecideFind(p) ==
    /\ pc[p] = "decide_find"
    /\ IF ~oid(req[p].pr_id)
       THEN Raise(p, 400, "Invalid id format")
       ELSE LET found == Found(purchaserequest, "purchaserequest", req[p].pr_id)
                pr_doc == IF found THEN purchaserequest[req[p].pr_id[2]] ELSE NoDoc
                chk == DecideChecks(found, pr_doc, req[p].manager_id)
            IN  IF chk[1] # 0
                THEN Raise(p, chk[1], chk[2])
                ELSE /\ loc' = [loc EXCEPT ![p].doc = pr_doc]
                     /\ Goto(p, "decide_update")
                     /\ UNCHANGED <<db, req>>

\* Mutant of DecisionSet: the rejected_reason stored as given, None included.
DecisionSet_RawReason(r) ==
    IF r.approve
    THEN [status |-> "approved", approved_by |-> r.manager_id, approved_at |-> "now"]
    ELSE [status |-> "rejected", rejected_reason |-> r.rejected_reason]

DecisionSet(r) ==
    IF r.approve
    THEN [status |-> "approved", approved_by |-> r.manager_id, approved_at |-> "now"]
    ELSE [status |-> "rejected",
          rejected_reason |-> IF r.rejected_reason = None THEN "" ELSE r.rejected_reason]

\* Mutant of DecideUpdate: the update is conditional on the status still being
\* submitted.
DecideUpdate_IfSubmitted(p) ==
    /\ pc[p] = "decide_update"
    /\ purchaserequest' =
          IF purchaserequest[req[p].pr_id[2]].status = "submitted"
          THEN SetFields(purchaserequest, req[p].pr_id,
                  IF req[p].approve
                  THEN [status |-> "approved", approved_by |-> req[p].manager_id,
                        approved_at |-> "now"]
                  ELSE [status |-> "rejected", rejected_reason |-> req[p].rejected_reason])
          ELSE purchaserequest
    /\ Goto(p, "decide_notify")
    /\ UNCHANGED <<user, supplier, item, inventory, purchaseorder, goodsreceipt,
                   notification, req, loc>>

DecideUpdate(p) ==
    /\ pc[p] = "decide_update"
    /\ purchaserequest' = SetFields(purchaserequest, req[p].pr_id, DecisionSet(req[p]))
    /\ Goto(p, "decide_notify")
    /\ UNCHANGED <<user, supplier, item, inventory, purchaseorder, goodsreceipt,
                   notification, req, loc>>

\* Mutant of DecideNotif: a rejection is notified to the manager who decided.
DecideNotif_ToManager(r, pr_doc) ==
    IF r.approve
    THEN Notif(NoId, "purchasing", "PR Approved", "PR", r.pr_id)
    ELSE Notif(pr_doc.manager_id, None, "PR Rejected", "PR", r.pr_id)

DecideNotif(r, pr_doc) ==
    IF r.approve
    THEN Notif(NoId, "purchasing", "PR Approved", "PR", r.pr_id)
    ELSE Notif(pr_doc.employee_id, None, "PR Rejected", "PR", r.pr_id)

DecideNotify(p) ==
    /\ pc[p] = "decide_notify"
    /\ notification' = Append(notification, DecideNotif(req[p], loc[p].doc))
    /\ Respond(p, 200, "", NoId)
    /\ UNCHANGED <<user, supplier, item, inventory, purchaserequest, purchaseorder,
                   goodsreceipt>>

\* ---------------------------------------------------------------- create_po
CreatePo(p, id, s) ==
    /\ Budget(purchaseorder, "create_po", MaxPO)
    /\ Recv(p, [op |-> "create_po", pr_id |-> id, supplier_id |-> s], "po_find_pr")

\* Mutant of PoChecks: any existing purchase request is accepted.
PoChecks_AnyStatus(found, pr_doc) ==
    IF ~found THEN <<404, "PR not found">> ELSE <<0, "">>

PoChecks(found, pr_doc) ==
    IF ~found THEN <<404, "PR not found">>
    ELSE IF pr_doc.status # "approved" THEN <<400, "PR is not approved">>
    ELSE <<0, "">>

PoFindPr(p) ==
    /\ pc[p] = "po_find_pr"
    /\ IF ~oid(req[p].pr_id)
       THEN Raise(p, 400, "Invalid id format")
       ELSE LET found == Found(purchaserequest, "purchaserequest", req[p].pr_id)
                pr_doc == IF found THEN purchaserequest[req[p].pr_id[2]] ELSE NoDoc
                chk == PoChecks(found, pr_doc)
            IN  IF chk[1] # 0
                THEN Raise(p, chk[1], chk[2])
                ELSE /\ loc' = [loc EXCEPT ![p].doc = pr_doc]
                     /\ Goto(p, "po_find_supplier")
                     /\ UNCHANGED <<db, req>>

\* Mutant of PoFindSupplier: the purchase order is inserted before the supplier
\* is looked up.
PoFindSupplier_AfterInsert(p) ==
    /\ pc[p] = "po_find_supplier"
    /\ purchaseorder' = Append(purchaseorder,
          [pr_id |-> req[p].pr_id, supplier_id |-> req[p].supplier_id,
           lines |-> loc[p].doc.lines, status |-> "sent"])
    /\ UNCHANGED <<user, supplier, item, inventory, purchaserequest, goodsreceipt,
                   notification>>
    /\ IF ~oid(req[p].supplier_id)
       THEN Respond(p, 400, "Invalid id format", NoId)
       ELSE IF req[p].supplier_id \notin DOMAIN supplier
       THEN Respond(p, 400, "Invalid supplier_id", NoId)
       ELSE /\ loc' = [loc EXCEPT ![p].new_id = NewId(purchaseorder, "purchaseorder")]
            /\ Goto(p, "po_update_pr")
            /\ UNCHANGED req

PoFindSupplier(p) ==
    /\ pc[p] = "po_find_supplier"
    /\ IF ~oid(req[p].supplier_id)
       THEN Raise(p, 400, "Invalid id format")
       ELSE IF req[p].supplier_id \notin DOMAIN supplier
       THEN Raise(p, 400, "Invalid supplier_id")
       ELSE Goto(p, "po_insert") /\ UNCHANGED <<db, req, loc>>

\* Mutant of PoLines: the lines are copied in reverse order.
PoLines_Reversed(lines) ==
    [k \in 1..Len(lines) |->
        [sku |-> lines[Len(lines) + 1 - k].sku, name |-> lines[Len(lines) + 1 - k].name,
         qty |-> lines[Len(lines) + 1 - k].qty, uom |-> lines[Len(lines) + 1 - k].uom]]

PoLines(lines) ==
    [k \in 1..Len(lines) |->
        [sku |-> lines[k].sku, name |-> lines[k].name, qty |-> lines[k].qty,
         uom |-> lines[k].uom]]

PoDoc(r, pr_doc) ==
    [pr_id |-> r.pr_id, supplier_id |-> r.supplier_id, lines |-> PoLines(pr_doc.lines),
     status |-> "sent"]

PoInsert(p) ==
    /\ pc[p] = "po_insert"
    /\ purchaseorder' = Append(purchaseorder, PoDoc(req[p], loc[p].doc))
    /\ loc' = [loc EXCEPT ![p].new_id = NewId(purchaseorder, "purchaseorder")]
    /\ Goto(p, "po_update_pr")
    /\ UNCHANGED <<user, supplier, item, inventory, purchaserequest, goodsreceipt,
                   notification, req>>

\* Mutant of PoPrSet: the status is set, the po_id is not.
PoPrSet_NoPoId(po_id) == [status |-> "ordered"]

PoPrSet(po_id) == [status |-> "ordered", po_id |-> po_id]

\* Mutant of PoUpdatePr: a po_id already set is kept.
PoUpdatePr_KeepFirst(p) ==
    /\ pc[p] = "po_update_pr"
    /\ purchaserequest' =
          SetFields(purchaserequest, req[p].pr_id,
             [status |-> "ordered",
              po_id |-> IF purchaserequest[req[p].pr_id[2]].po_id = NoId
                        THEN loc[p].new_id
                        ELSE purchaserequest[req[p].pr_id[2]].po_id])
    /\ Goto(p, "po_notify")
    /\ UNCHANGED <<user, supplier, item, inventory, purchaseorder, goodsreceipt,
                   notification, req, loc>>

PoUpdatePr(p) ==
    /\ pc[p] = "po_update_pr"
    /\ purchaserequest' = SetFields(purchaserequest, req[p].pr_id, PoPrSet(loc[p].new_id))
    /\ Goto(p, "po_notify")
    /\ UNCHANGED <<user, supplier, item, inventory, purchaseorder, goodsreceipt,
                   notification, req, loc>>

PoNotify(p) ==
    /\ pc[p] = "po_notify"
    /\ notification' = Append(notification,
          Notif(loc[p].doc.employee_id, None, "PO Created", "PO", loc[p].new_id))
    /\ Respond(p, 200, "", loc[p].new_id)
    /\ UNCHANGED <<user, supplier, item, inventory, purchaserequest, purchaseorder,
                   goodsreceipt>>

\* ---------------------------------------------------------------- create_gr
CreateGr(p, id, ls) ==
    /\ Budget(goodsreceipt, "create_gr", MaxGR)
    /\ Recv(p, [op |-> "create_gr", po_id |-> id, lines |-> ls], "gr_find_po")

GrFindPo(p) ==
    /\ pc[p] = "gr_find_po"
    /\ IF ~oid(req[p].po_id)
       THEN Raise(p, 400, "Invalid id format")
       ELSE IF ~Found(purchaseorder, "purchaseorder", req[p].po_id)
       THEN Raise(p, 404, "PO not found")
       ELSE /\ loc' = [loc EXCEPT ![p].doc = purchaseorder[req[p].po_id[2]]]
            /\ Goto(p, "gr_insert")
            /\ UNCHANGED <<db, req>>

GrDoc(r) == [po_id |-> r.po_id, lines |-> r.lines]

GrInsert(p) ==
    /\ pc[p] = "gr_insert"
    /\ goodsreceipt' = Append(goodsreceipt, GrDoc(req[p]))
    /\ loc' = [loc EXCEPT ![p].new_id = NewId(goodsreceipt, "goodsreceipt"),
                          ![p].i = 1]
    /\ Goto(p, IF req[p].lines = <<>> THEN "gr_scan" ELSE "gr_inventory")
    /\ UNCHANGED <<user, supplier, item, inventory, purchaserequest, purchaseorder,
                   notification, req>>

\* one iteration of "for line in data.lines"
GrInventory(p) ==
    /\ pc[p] = "gr_inventory"
    /\ LET line == req[p].lines[loc[p].i]
       IN  inventory' = Upsert(inventory, line.sku, line.qty_received, line.uom)
    /\ loc' = [loc EXCEPT ![p].i = @ + 1]
    /\ Goto(p, IF loc[p].i = Len(req[p].lines) THEN "gr_scan" ELSE "gr_inventory")
    /\ UNCHANGED <<user, supplier, item, purchaserequest, purchaseorder, goodsreceipt,
                   notification, req>>

GrScan(p) ==
    /\ pc[p] = "gr_scan"
    /\ loc' = [loc EXCEPT ![p].total = TotalReceived(goodsreceipt, req[p].po_id)]
    /\ Goto(p, "gr_update_po")
    /\ UNCHANGED <<db, req>>

\* Mutant of NewStatus: received only when more than the ordered total arrived.
NewStatus_Strict(total_received, total_po_qty) ==
    IF total_received > total_po_qty THEN "received" ELSE "partially_received"

NewStatus(total_received, total_po_qty) ==
    IF total_received >= total_po_qty THEN "received" ELSE "partially_received"

\* Mutant of GrUpdatePo: the goods receipts are scanned again at the update.
GrUpdatePo_Fresh(p) ==
    /\ pc[p] = "gr_update_po"
    /\ purchaseorder' = SetFields(purchaseorder, req[p].po_id,
          [status |-> IF TotalReceived(goodsreceipt, req[p].po_id)
                            >= SumQty(loc[p].doc.lines)
                      THEN "received" ELSE "partially_received"])
    /\ Goto(p, "gr_find_pr")
    /\ UNCHANGED <<user, supplier, item, inventory, purchaserequest, goodsreceipt,
                   notification, req, loc>>

GrUpdatePo(p) ==
    /\ pc[p] = "gr_update_po"
    /\ purchaseorder' = SetFields(purchaseorder, req[p].po_id,
          [status |-> NewStatus(loc[p].total, SumQty(loc[p].doc.lines))])
    /\ Goto(p, "gr_find_pr")
    /\ UNCHANGED <<user, supplier, item, inventory, purchaserequest, goodsreceipt,
                   notification, req, loc>>

GrFindPr(p) ==
    /\ pc[p] = "gr_find_pr"
    /\ LET id == loc[p].doc.pr_id
       IN  IF Found(purchaserequest, "purchaserequest", id)
           THEN /\ loc' = [loc EXCEPT ![p].emp = purchaserequest[id[2]].employee_id]
                /\ Goto(p, "gr_notify")
                /\ UNCHANGED <<db, req>>
           ELSE /\ Respond(p, 200, "", loc[p].new_id)
                /\ UNCHANGED db

GrNotify(p) ==
    /\ pc[p] = "gr_notify"
    /\ notification' = Append(notification,
          Notif(loc[p].emp, None, "Goods Received", "GR", loc[p].new_id))
    /\ Respond(p, 200, "", loc[p].new_id)
    /\ UNCHANGED <<user, supplier, item, inventory, purchaserequest, purchaseorder,
                   goodsreceipt>>

\* ---------------------------------------------------------------- notifications
\* Ids and filters a client may send: the first notifications, a well-formed id
\* that names none, a malformed one; a user id or none; a role or none.
NotifIdsIn == {<<"notification", n>> : n \in 1..MaxPR} \cup {Employee, BadId}
UserFiltersIn == {NoId, Employee, Manager}
RoleFiltersIn == {None, "purchasing"}

MarkNotificationRead(p, id) ==
    Recv(p, [op |-> "mark_notification_read", notif_id |-> id], "mark_read")

\* update_one({"_id": id}, {"$set": fields}) where fields may be new to the
\* document; no document matched: nothing changes.
SetOrAdd(coll, name, id, fields) ==
    IF Found(coll, name, id)
    THEN [coll EXCEPT ![id[2]] =
            [f \in DOMAIN @ \cup DOMAIN fields |->
                IF f \in DOMAIN fields THEN fields[f] ELSE @[f]]]
    ELSE coll

\* Mutant of ReadSet: the flag is written as false.
ReadSet_Unread == [read |-> FALSE, updated_at |-> "now"]

ReadSet == [read |-> TRUE, updated_at |-> "now"]

MarkRead(p) ==
    /\ pc[p] = "mark_read"
    /\ IF ~oid(req[p].notif_id)
       THEN Raise(p, 400, "Invalid id format")
       ELSE /\ notification' = SetOrAdd(notification, "notification", req[p].notif_id,
                                        ReadSet)
            /\ Respond(p, 200, "", NoId)
            /\ UNCHANGED <<user, supplier, item, inventory, purchaserequest,
                           purchaseorder, goodsreceipt>>

ListNotifications(p, user_id, role) ==
    Recv(p, [op |-> "list_notifications", user_id |-> user_id, role |-> role], "list")

\* Mutant of ListQuery: the read flag is not part of the filter.
ListQuery_AnyRead(coll, user_id, role) ==
    {<<"notification", n>> : n \in
        {k \in 1..Len(coll) :
            /\ user_id # NoId => coll[k].to_user_id = user_id
            /\ role # None => coll[k].role = role}}

\* find(q) with q = {"read": False} and, when given, to_user_id and role: the
\* ids of the documents returned (their order is by created_at, a field the
\* store sets and this model does not keep).
ListQuery(coll, user_id, role) ==
    {<<"notification", n>> : n \in
        {k \in 1..Len(coll) :
            /\ coll[k].read = FALSE
            /\ user_id # NoId => coll[k].to_user_id = user_id
            /\ role # None => coll[k].role = role}}

List(p) ==
    /\ pc[p] = "list"
    /\ pc' = [pc EXCEPT ![p] = "idle"]
    /\ req' = [req EXCEPT ![p] = NoReq]
    /\ loc' = [loc EXCEPT ![p] = NoLoc]
    /\ resp' = [p |-> p, code |-> 200, detail |-> "", id |-> NoId,
                items |-> ListQuery(notification, req[p].user_id, req[p].role)]
    /\ UNCHANGED <<db, overlap>>

\* ---------------------------------------------------------------- master data
MaxItems == MaxDocs \div 2
MaxMaster == MaxDocs \div 4      \* users, suppliers created besides the seeded ones
RolesIn == {"employee", "manager"}

CreateUser(p, role) ==
    /\ Cardinality(DOMAIN user) + Creating("create_user") < 3 + MaxMaster
    /\ Recv(p, [op |-> "create_user", role |-> role], "user_insert")

UserInsert(p) ==
    /\ pc[p] = "user_insert"
    /\ LET new_id == <<"user", Cardinality(DOMAIN user) + 1>>
       IN  /\ user' = [u \in DOMAIN user \cup {new_id} |->
                         IF u = new_id THEN [role |-> req[p].role, is_active |-> TRUE]
                         ELSE user[u]]
           /\ Respond(p, 200, "", new_id)
    /\ UNCHANGED <<supplier, item, inventory, purchaserequest, purchaseorder,
                   goodsreceipt, notification>>

CreateSupplier(p) ==
    /\ Cardinality(DOMAIN supplier) + Creating("create_supplier") < 1 + MaxMaster
    /\ Recv(p, [op |-> "create_supplier", code |-> "S2"], "supplier_insert")

SupplierInsert(p) ==
    /\ pc[p] = "supplier_insert"
    /\ LET new_id == <<"supplier", Cardinality(DOMAIN supplier) + 1>>
       IN  /\ supplier' = [u \in DOMAIN supplier \cup {new_id} |->
                             IF u = new_id THEN [code |-> req[p].code] ELSE supplier[u]]
           /\ Respond(p, 200, "", new_id)
    /\ UNCHANGED <<user, item, inventory, purchaserequest, purchaseorder,
                   goodsreceipt, notification>>

CreateItem(p, sku) ==
    /\ Len(item) + Creating("create_item") < MaxItems
    /\ Recv(p, [op |-> "create_item", sku |-> sku, uom |-> "pcs"], "item_insert")

ItemInsert(p) ==
    /\ pc[p] = "item_insert"
    /\ item' = Append(item, [sku |-> req[p].sku, name |-> "item", uom |-> req[p].uom])
    /\ loc' = [loc EXCEPT ![p].new_id = NewId(item, "item")]
    /\ Goto(p, "item_find_inv")
    /\ UNCHANGED <<user, supplier, inventory, purchaserequest, purchaseorder,
                   goodsreceipt, notification, req>>

\* inv = find_one({"sku": item.sku}); if not inv: ...
ItemFindInv(p) ==
    /\ pc[p] = "item_find_inv"
    /\ IF \E k \in 1..Len(inventory) : inventory[k].sku = req[p].sku
       THEN Respond(p, 200, "", loc[p].new_id) /\ UNCHANGED db
       ELSE Goto(p, "item_insert_inv") /\ UNCHANGED <<db, req, loc>>

ItemInsertInv(p) ==
    /\ pc[p] = "item_insert_inv"
    /\ inventory' = Append(inventory,
                           [sku |-> req[p].sku, on_hand |-> 0, uom |-> req[p].uom])
    /\ Respond(p, 200, "", loc[p].new_id)
    /\ UNCHANGED <<user, supplier, item, purchaserequest, purchaseorder,
                   goodsreceipt, notification>>

\* ---------------------------------------------------------------- specifications
AllOps == {"create_pr", "decide_pr", "create_po", "create_gr"}

StepPr(p) == PrFindEmp(p) \/ PrFindMgr(p) \/ PrInsert(p) \/ PrNotify(p)
StepDecide(p) == DecideFind(p) \/ DecideUpdate(p) \/ DecideNotify(p)
StepPo(p) ==
    PoFindPr(p) \/ PoFindSupplier(p) \/ PoInsert(p) \/ PoUpdatePr(p) \/ PoNotify(p)
StepGr(p) ==
    \/ GrFindPo(p) \/ GrInsert(p) \/ GrInventory(p) \/ GrScan(p) \/ GrUpdatePo(p)
    \/ GrFindPr(p) \/ GrNotify(p)

\* Requests run one at a time: a request is received only when no handler is
\* in progress.  Clients send every request, failing ones included.
Next ==
    \E p \in SeqProcs :
        \/ /\ Quiet(AllOps)
           /\ \/ \E e \in UserIdsIn, m \in UserIdsIn, ls \in PRLinesIn :
                    CreatePr(p, e, m, ls)
              \/ \E id \in PrIdsIn, m \in ManagerIdsIn, a \in BOOLEAN, rr \in ReasonsIn :
                    DecidePr(p, id, m, a, rr)
              \/ \E id \in PrIdsIn, s \in SupplierIdsIn : CreatePo(p, id, s)
              \/ \E id \in PoIdsIn, ls \in GRLinesIn : CreateGr(p, id, ls)
        \/ StepPr(p) \/ StepDecide(p) \/ StepPo(p) \/ StepGr(p)

Spec == Init /\ [][Next]_vars

\* Well-formed requests, as the concurrent specifications send them.
ValidPrIds == {<<"purchaserequest", n>> : n \in 1..MaxPR}
ValidPoIds == {<<"purchaseorder", n>> : n \in 1..MaxPO}
ValidPRLines == <<PRLine("A", 2)>>
ValidGRLinesIn == {<<GRLine("A", 1)>>, <<GRLine("A", 2), GRLine("B", 1)>>,
                   <<GRLine("B", -1)>>}

\* decide_pr and create_po handlers interleaved at store operations; a purchase
\* request is submitted while no handler is in progress.
\* dq / pq: the operations that must not be in progress on the same purchase
\* request when a decide_pr / a create_po request is received.
PrRequests(p, dq, pq) ==
    \/ /\ Quiet(AllOps)
       /\ CreatePr(p, Employee, Manager, ValidPRLines)
    \/ \E id \in ValidPrIds, a \in BOOLEAN :
          /\ \A op \in dq : QuietOn(op, id)
          /\ DecidePr(p, id, Manager, a, "budget")
    \/ \E id \in ValidPrIds :
          /\ \A op \in pq : QuietOn(op, id)
          /\ CreatePo(p, id, Supplier1)

NextConcPR ==
    \E p \in Procs : PrRequests(p, {}, {}) \/ StepPr(p) \/ StepDecide(p) \/ StepPo(p)

SpecConcPR == Init /\ [][NextConcPR]_vars

\* As NextConcPR, but create_po invocations for the same purchase request do
\* not overlap: each runs to completion before the next is received.
NextPoSerial ==
    \E p \in Procs :
        PrRequests(p, {}, {"create_po"}) \/ StepPr(p) \/ StepDecide(p) \/ StepPo(p)

SpecPoSerial == Init /\ [][NextPoSerial]_vars

\* Purchase requests and orders handled one at a time, then create_gr handlers
\* interleaved with one another at store operations.
NextConcGR ==
    \E p \in Procs :
        \/ /\ Quiet(AllOps)
           /\ PrRequests(p, {}, {})
        \/ /\ Quiet({"create_pr", "decide_pr", "create_po"})
           /\ \E id \in ValidPoIds, ls \in ValidGRLinesIn : CreateGr(p, id, ls)
        \/ StepPr(p) \/ StepDecide(p) \/ StepPo(p) \/ StepGr(p)

SpecConcGR == Init /\ [][NextConcGR]_vars

\* Every operation, requests run one at a time: the workflow with well-formed
\* requests, the notification endpoints and the master data.
NotifOps == {"mark_notification_read", "list_notifications"}
MasterOps == {"create_user", "create_supplier", "create_item"}
EveryOp == AllOps \cup NotifOps \cup MasterOps
SnapshotLinesIn == {ValidPRLines, <<PRLine("B", 1), PRLine("A", 2)>>}

StepNotif(p) == MarkRead(p) \/ List(p)
StepItem(p) == ItemInsert(p) \/ ItemFindInv(p) \/ ItemInsertInv(p)
StepMaster(p) == UserInsert(p) \/ SupplierInsert(p) \/ StepItem(p)

\* Documents created so far, the seeded users and supplier not counted.
DocsCreated ==
    Len(purchaserequest) + Len(purchaseorder) + Len(goodsreceipt) + Len(item)
    + (Cardinality(DOMAIN user) - 3) + (Cardinality(DOMAIN supplier) - 1)

NextAll ==
    \E p \in SeqProcs :
        \/ /\ Quiet(EveryOp)
           /\ DocsCreated < MaxDocs
           /\ \/ \E ls \in SnapshotLinesIn : CreatePr(p, Employee, Manager, ls)
              \/ \E id \in ValidPrIds : CreatePo(p, id, Supplier1)
              \/ \E id \in ValidPoIds, ls \in ValidGRLinesIn : CreateGr(p, id, ls)
              \/ \E r \in RolesIn : CreateUser(p, r)
              \/ CreateSupplier(p)
              \/ \E sku \in Skus : CreateItem(p, sku)
        \/ /\ Quiet(EveryOp)
           /\ \/ \E id \in ValidPrIds, a \in BOOLEAN : DecidePr(p, id, Manager, a, "budget")
              \/ \E id \in NotifIdsIn : MarkNotificationRead(p, id)
              \/ \E u \in UserFiltersIn, r \in RoleFiltersIn : ListNotifications(p, u, r)
        \/ StepPr(p) \/ StepDecide(p) \/ StepPo(p) \/ StepGr(p)
        \/ StepNotif(p) \/ StepMaster(p)

SpecAll == Init /\ [][NextAll]_vars

\* Purchase requests and orders handled one at a time, then create_item and
\* create_gr handlers interleaved with one another at store operations.
NextConcInv ==
    \E p \in Procs :
        \/ /\ Quiet(EveryOp)
           /\ PrRequests(p, {}, {})
        \/ /\ Quiet({"create_pr", "decide_pr", "create_po"})
           /\ \/ \E id \in ValidPoIds, ls \in ValidGRLinesIn : CreateGr(p, id, ls)
              \/ \E sku \in Skus : CreateItem(p, sku)
        \/ StepPr(p) \/ StepDecide(p) \/ StepPo(p) \/ StepGr(p) \/ StepItem(p)

SpecConcInv == Init /\ [][NextConcInv]_vars

\* ---------------------------------------------------------------- properties
PrIds == {<<"purchaserequest", n>> : n \in 1..Len(purchaserequest)}
PoIds == {<<"purchaseorder", n>> : n \in 1..Len(purchaseorder)}
Pr(id) == purchaserequest[id[2]]
Po(id) == purchaseorder[id[2]]
AllIdle == \A p \in Procs : pc[p] = "idle"

\* Process p takes the step it is at (label) in this transition.
Takes(p, label) == pc[p] = label /\ pc'[p] # label

StatusEdges ==
    {<<"submitted", "approved">>, <<"submitted", "rejected">>, <<"approved", "ordered">>}

\* C1: with requests run one at a time, no purchase request is ever removed,
\* the status of an existing purchase request either stays or moves along
\* submitted->approved, submitted->rejected or approved->ordered (so rejected
\* and ordered are terminal), and a new purchase request has status submitted.
C1_StatusEdges ==
    [][/\ Len(purchaserequest') >= Len(purchaserequest)
       /\ \A n \in 1..Len(purchaserequest') :
            IF n <= Len(purchaserequest)
            THEN \/ purchaserequest'[n].status = purchaserequest[n].status
                 \/ <<purchaserequest[n].status, purchaserequest'[n].status>>
                       \in StatusEdges
            ELSE purchaserequest'[n].status = "submitted"]_vars

C1_Witness ==
    /\ \E id \in PrIds : Pr(id).status = "ordered"
    /\ \E id \in PrIds : Pr(id).status = "rejected"

\* A decide_pr call on an existing purchase request that a decision has already
\* moved out of submitted reaches its checks in this transition.
LaterDecide(p) ==
    /\ Takes(p, "decide_find")
    /\ req[p].pr_id \in PrIds
    /\ Pr(req[p].pr_id).status # "submitted"

\* C2 (original): every decide_pr call on a purchase request that was already
\* decided fails with 400 'PR is not pending approval', whatever its manager_id,
\* and leaves the purchase request as it was.
C2_Original ==
    [][\A p \in Procs :
         LaterDecide(p) =>
            /\ resp'.code = 400
            /\ resp'.detail = "PR is not pending approval"
            /\ purchaserequest' = purchaserequest]_vars

\* C2 (amended): every decide_pr call on a purchase request that was already
\* decided fails and leaves the purchase request as it was: with 400 'PR is not
\* pending approval' when its manager_id is the purchase request's manager_id,
\* with 403 'Manager not assigned to this PR' otherwise.
C2_Amended ==
    [][\A p \in Procs :
         LaterDecide(p) =>
            /\ resp'.p = p
            /\ IF req[p].manager_id = Pr(req[p].pr_id).manager_id
               THEN resp'.code = 400 /\ resp'.detail = "PR is not pending approval"
               ELSE resp'.code = 403 /\ resp'.detail = "Manager not assigned to this PR"
            /\ purchaserequest' = purchaserequest
            /\ pc'[p] = "idle"]_vars

C2_Witness ==
    /\ resp.code = 400
    /\ resp.detail = "PR is not pending approval"
    /\ \E id \in PrIds : Pr(id).status = "rejected" /\ Pr(id).rejected_reason = "budget"

\* C3: for a well-formed pr_id, decide_pr answers 404 when the purchase request
\* does not exist; else 403 when manager_id differs from the purchase request's
\* manager_id; else 400 when its status is not submitted; else it goes on to the
\* update.  On each of these errors no collection changes: the purchase request
\* is as it was and no notification is created.
C3_CheckOrder ==
    [][\A p \in Procs :
         (Takes(p, "decide_find") /\ oid(req[p].pr_id)) =>
            LET id == req[p].pr_id
                exists == id \in PrIds
            IN  /\ ~exists => resp'.code = 404
                /\ (exists /\ Pr(id).manager_id # req[p].manager_id) => resp'.code = 403
                /\ (exists /\ Pr(id).manager_id = req[p].manager_id
                           /\ Pr(id).status # "submitted") => resp'.code = 400
                /\ (exists /\ Pr(id).manager_id = req[p].manager_id
                           /\ Pr(id).status = "submitted") =>
                       resp' = NoResp /\ pc'[p] = "decide_update"
                /\ resp'.code \in {400, 403, 404} =>
                       /\ resp'.p = p /\ pc'[p] = "idle"
                       /\ purchaserequest' = purchaserequest
                       /\ notification' = notification
                       /\ UNCHANGED db]_vars

C3_Witness ==
    /\ resp.code = 403
    /\ \E id \in PrIds : Pr(id).status # "submitted"

\* C4: create_po creates a purchase order only for an existing purchase request
\* with status approved and an existing supplier.  For a well-formed pr_id it
\* answers 404 when the purchase request is missing and 400 when its status is
\* not approved; for a well-formed supplier_id, 400 when the supplier is
\* unknown.  On each error no purchase order is created, the purchase request
\* is unchanged and no notification is emitted.
C4_PoPreconditions ==
    [][\A p \in Procs :
         /\ (Takes(p, "po_find_pr") /\ oid(req[p].pr_id)) =>
               LET id == req[p].pr_id
               IN  /\ id \notin PrIds => resp'.code = 404
                   /\ (id \in PrIds /\ Pr(id).status # "approved") =>
                          resp'.code = 400 /\ resp'.detail = "PR is not approved"
         /\ (Takes(p, "po_find_supplier") /\ oid(req[p].supplier_id)
               /\ req[p].supplier_id \notin DOMAIN supplier) =>
               resp'.code = 400 /\ resp'.detail = "Invalid supplier_id"
         /\ (req[p].op = "create_po" /\ resp'.p = p /\ resp'.code # 200) =>
               /\ pc'[p] = "idle"
               /\ UNCHANGED db
         /\ (req[p].op = "create_po" /\ purchaseorder' # purchaseorder) =>
               /\ req[p].pr_id \in PrIds
               /\ Pr(req[p].pr_id).status = "approved"
               /\ req[p].supplier_id \in DOMAIN supplier]_vars

C4_Witness ==
    /\ resp.code = 400
    /\ resp.detail = "PR is not approved"
    /\ \E id \in PrIds : Pr(id).status = "ordered"
    /\ \E id \in PrIds : Pr(id).status = "rejected"

RECURSIVE SumTo(_, _)
SumTo(f, n) == IF n = 0 THEN 0 ELSE f[n] + SumTo(f, n - 1)

\* T: the sum of qty over the purchase order's lines.  R: the sum of
\* qty_received over all lines of all stored goods receipts for it.
OrderedTotal(id) ==
    LET ls == Po(id).lines
    IN  SumTo([k \in 1..Len(ls) |-> ls[k].qty], Len(ls))
ReceivedTotal(id) ==
    SumTo([n \in 1..Len(goodsreceipt) |->
             IF goodsreceipt[n].po_id = id
             THEN LET ls == goodsreceipt[n].lines
                  IN  SumTo([k \in 1..Len(ls) |-> ls[k].qty_received], Len(ls))
             ELSE 0],
          Len(goodsreceipt))
HasReceipt(id) == \E n \in 1..Len(goodsreceipt) : goodsreceipt[n].po_id = id

ValidReceipts ==
    \A n \in 1..Len(goodsreceipt) :
        \A k \in 1..Len(goodsreceipt[n].lines) :
            goodsreceipt[n].lines[k].qty_received > 0

\* C7 (original): with requests run one at a time, after any sequence of
\* requests a purchase order's status is received iff R >= T, otherwise
\* partially_received if R > 0, otherwise sent.  Stated here for the quantities
\* the data model allows only (T > 0, every qty_received > 0), which the
\* original covers: a goods receipt without lines already refutes it.
C7_Original ==
    (AllIdle /\ ValidReceipts) =>
        \A id \in PoIds :
            OrderedTotal(id) > 0 =>
                Po(id).status =
                    IF ReceivedTotal(id) >= OrderedTotal(id) THEN "received"
                    ELSE IF ReceivedTotal(id) > 0 THEN "partially_received"
                    ELSE "sent"

\* C7 (amended): with requests run one at a time, after any sequence of
\* requests a purchase order's status is sent iff no goods receipt is stored
\* for it; when one is stored, the status is received iff R >= T and
\* partially_received otherwise.
C7_Amended ==
    AllIdle =>
        \A id \in PoIds :
            Po(id).status =
                IF ~HasReceipt(id) THEN "sent"
                ELSE IF ReceivedTotal(id) >= OrderedTotal(id) THEN "received"
                ELSE "partially_received"

\* Scenario C: a first receipt below the ordered total, a second one reaching it.
C7_Witness ==
    /\ AllIdle
    /\ \E id \in PoIds :
         /\ Po(id).status = "received"
         /\ OrderedTotal(id) > 0
         /\ Cardinality({n \in 1..Len(goodsreceipt) : goodsreceipt[n].po_id = id}) = 2
         /\ \A n \in 1..Len(goodsreceipt) :
               SumReceived(goodsreceipt[n].lines) < OrderedTotal(id)

PosOf(id) == {po \in PoIds : Po(po).pr_id = id}
NoCreatePo == \A p \in Procs : req[p].op # "create_po"

\* What create_po does, step by step: the insert appends one purchase order
\* with status sent for the request's purchase request; the update sets that
\* purchase request to ordered with the new order's id as po_id; no other step
\* sets a purchase request to ordered; the response carries the order's id.
C5_CreatePoEffect ==
    /\ \A p \in Procs :
         /\ Takes(p, "po_insert") =>
               /\ Len(purchaseorder') = Len(purchaseorder) + 1
               /\ SubSeq(purchaseorder', 1, Len(purchaseorder)) = purchaseorder
               /\ purchaseorder'[Len(purchaseorder')].status = "sent"
               /\ purchaseorder'[Len(purchaseorder')].pr_id = req[p].pr_id
               /\ loc'[p].new_id = <<"purchaseorder", Len(purchaseorder')>>
         /\ Takes(p, "po_update_pr") =>
               /\ purchaserequest'[req[p].pr_id[2]].status = "ordered"
               /\ purchaserequest'[req[p].pr_id[2]].po_id = loc[p].new_id
               /\ Po(loc[p].new_id).pr_id = req[p].pr_id
         /\ (Takes(p, "po_notify") /\ resp'.code = 200) => resp'.id = loc[p].new_id
    /\ \A n \in 1..Len(purchaserequest) :
         (purchaserequest[n].status # "ordered" /\ purchaserequest'[n].status = "ordered")
            => \E p \in Procs :
                  Takes(p, "po_update_pr") /\ req[p].pr_id = <<"purchaserequest", n>>

OrderedHasPo ==
    \A id \in PrIds :
        Pr(id).status = "ordered" =>
            Pr(id).po_id \in PoIds /\ Po(Pr(id).po_id).pr_id = id

\* C5 (original): whenever no create_po handler is in progress, every purchase
\* request with status ordered has a po_id naming an existing purchase order
\* whose pr_id is that purchase request, and every purchase order's source
\* purchase request has status ordered.
C5_Original ==
    NoCreatePo =>
        /\ OrderedHasPo
        /\ \A po \in PoIds : Pr(Po(po).pr_id).status = "ordered"

\* C5 (amended): create_po acts as C5_CreatePoEffect says, and whenever no
\* create_po handler is in progress every purchase request with status ordered
\* has a po_id naming an existing purchase order whose pr_id is that purchase
\* request, and every purchase order's source purchase request has status
\* ordered unless a decide_pr request for it arrived while another decide_pr on
\* it was in progress.
C5_Amended ==
    /\ [](NoCreatePo =>
            /\ OrderedHasPo
            /\ \A po \in PoIds :
                  Po(po).pr_id \notin overlap => Pr(Po(po).pr_id).status = "ordered")
    /\ [][C5_CreatePoEffect]_vars

\* Two create_po handlers raced on one purchase request whose decisions did
\* not overlap, and both have finished.
C5_Witness ==
    /\ AllIdle
    /\ \E id \in PrIds \ overlap :
         /\ Cardinality(PosOf(id)) = 2
         /\ Pr(id).status = "ordered"

\* C6 (original): when create_po invocations for the same purchase request do
\* not overlap, at most one purchase order ever references a given purchase
\* request.
C6_Original == \A id \in PrIds : Cardinality(PosOf(id)) <= 1

\* C6 (amended): when create_po invocations for the same purchase request do
\* not overlap, and no decide_pr request for it arrived while another decide_pr
\* on it was in progress, at most one purchase order ever references the
\* purchase request: once one exists, every further create_po for it fails with
\* 400 'PR is not approved' and changes nothing.
C6_Amended ==
    /\ [](\A id \in PrIds \ overlap : Cardinality(PosOf(id)) <= 1)
    /\ [][\A p \in Procs :
            (/\ Takes(p, "po_find_pr")
             /\ req[p].pr_id \in PrIds \ overlap
             /\ PosOf(req[p].pr_id) # {}) =>
                /\ resp'.p = p
                /\ resp'.code = 400
                /\ resp'.detail = "PR is not approved"
                /\ UNCHANGED db]_vars

C6_Witness ==
    /\ resp.code = 400
    /\ resp.detail = "PR is not approved"
    /\ \E id \in PrIds \ overlap :
         Cardinality(PosOf(id)) = 1 /\ Pr(id).status = "ordered"

\* sum of qty_received over the lines with that sku in the stored goods receipts
Persisted(grs, sku) ==
    SumTo([n \in 1..Len(grs) |->
             LET ls == grs[n].lines
             IN  SumTo([k \in 1..Len(ls) |->
                          IF ls[k].sku = sku THEN ls[k].qty_received ELSE 0], Len(ls))],
          Len(grs))

\* on_hand of a sku: 0 when it has no inventory record
OnHand(inv, sku) ==
    SumTo([k \in 1..Len(inv) |-> IF inv[k].sku = sku THEN inv[k].on_hand ELSE 0],
          Len(inv))

NoCreateGr == \A p \in Procs : req[p].op # "create_gr"

\* C8: under any interleaving of create_gr handlers, for every sku on_hand never
\* exceeds the sum of qty_received over the lines with that sku in the goods
\* receipts stored so far, and equals it whenever no create_gr handler is in
\* progress.
C8_Original ==
    \A sku \in Skus :
        /\ OnHand(inventory, sku) <= Persisted(goodsreceipt, sku)
        /\ NoCreateGr => OnHand(inventory, sku) = Persisted(goodsreceipt, sku)

\* The part of C8 that holds whatever the quantities: no increment is lost.
C8_NoLostIncrement ==
    NoCreateGr =>
        \A sku \in Skus : OnHand(inventory, sku) = Persisted(goodsreceipt, sku)

\* C9: every stored goods receipt has qty_received > 0 on every line, and the
\* on_hand of every inventory record is never negative and never decreases.
C9_Original ==
    /\ \A n \in 1..Len(goodsreceipt) :
         \A k \in 1..Len(goodsreceipt[n].lines) :
            goodsreceipt[n].lines[k].qty_received > 0
    /\ \A k \in 1..Len(inventory) : inventory[k].on_hand >= 0

IdSet(x) == x # NoId
StrSet(x) == x # None

\* C10: with requests run one at a time, in every state each purchase request
\* has approved_by and approved_at set iff its status is approved or ordered,
\* approved_by then being its manager_id; rejected_reason set iff its status is
\* rejected; po_id set iff its status is ordered.  The rejected_reason a
\* rejection stores is the one given, or the empty string when none was given.
C10_FieldsMatchStatus ==
    /\ [](\A id \in PrIds :
            LET pr == Pr(id)
            IN  /\ IdSet(pr.approved_by) <=> pr.status \in {"approved", "ordered"}
                /\ StrSet(pr.approved_at) <=> pr.status \in {"approved", "ordered"}
                /\ IdSet(pr.approved_by) => pr.approved_by = pr.manager_id
                /\ StrSet(pr.rejected_reason) <=> pr.status = "rejected"
                /\ IdSet(pr.po_id) <=> pr.status = "ordered")
    /\ [][\A p \in Procs :
            (Takes(p, "decide_update") /\ ~req[p].approve) =>
               purchaserequest'[req[p].pr_id[2]].rejected_reason =
                  IF req[p].rejected_reason = None THEN "" ELSE req[p].rejected_reason]_vars

C10_Witness ==
    /\ \E id \in PrIds : Pr(id).status = "rejected" /\ Pr(id).rejected_reason = ""
    /\ \E id \in PrIds : Pr(id).status = "ordered" /\ IdSet(Pr(id).po_id)

IsRole(id, role) == id \in DOMAIN user /\ user[id].role = role

\* C11: create_pr stores a purchase request, with status submitted, only if
\* employee_id names a user with role employee and manager_id names a user with
\* role manager; otherwise it answers 400 and creates neither a purchase request
\* nor a notification.  Hence every stored purchase request's employee_id names
\* an employee and its manager_id names a manager.
C11_UsersValidated ==
    /\ [](\A id \in PrIds :
            IsRole(Pr(id).employee_id, "employee") /\ IsRole(Pr(id).manager_id, "manager"))
    /\ [][\A p \in Procs :
            /\ (Takes(p, "pr_find_emp") /\ ~IsRole(req[p].employee_id, "employee")) =>
                  resp'.p = p /\ resp'.code = 400
            /\ (Takes(p, "pr_find_mgr") /\ ~IsRole(req[p].manager_id, "manager")) =>
                  resp'.p = p /\ resp'.code = 400
            /\ (req[p].op = "create_pr" /\ resp'.p = p /\ resp'.code # 200) =>
                  /\ resp'.code = 400
                  /\ pc[p] \in {"pr_find_emp", "pr_find_mgr"}
                  /\ UNCHANGED db
            /\ (req[p].op = "create_pr" /\ pc[p] \in {"pr_find_emp", "pr_find_mgr"}) =>
                  UNCHANGED db
            /\ (req[p].op = "create_pr" /\ purchaserequest' # purchaserequest) =>
                  /\ IsRole(req[p].employee_id, "employee")
                  /\ IsRole(req[p].manager_id, "manager")
                  /\ SubSeq(purchaserequest', 1, Len(purchaserequest)) = purchaserequest
                  /\ Len(purchaserequest') = Len(purchaserequest) + 1
                  /\ purchaserequest'[Len(purchaserequest')].status = "submitted"
                  /\ purchaserequest'[Len(purchaserequest')].employee_id = req[p].employee_id
                  /\ purchaserequest'[Len(purchaserequest')].manager_id = req[p].manager_id]_vars

\* A create_pr naming a user who is no manager was refused after one was stored.
C11_Witness ==
    /\ resp.code = 400
    /\ resp.detail = "Invalid manager_id"
    /\ PrIds # {}

\* C12: every stored purchase request has a non-empty list of lines and every
\* line has qty > 0; consequently every purchase order's ordered total is
\* strictly positive.
C12_Original ==
    /\ \A id \in PrIds :
          /\ Len(Pr(id).lines) > 0
          /\ \A k \in 1..Len(Pr(id).lines) : Pr(id).lines[k].qty > 0
    /\ \A po \in PoIds : OrderedTotal(po) > 0

\* The positions of a handler at which it has performed no write yet: its lookups.
CheckLabels ==
    {"pr_find_emp", "pr_find_mgr", "decide_find", "po_find_pr", "po_find_supplier",
     "gr_find_po"}

\* Process p takes a step of its handler in this transition.
Steps(p) == pc'[p] # pc[p] \/ loc'[p] # loc[p]

\* C13: in create_pr, decide_pr, create_po and create_gr every check that can
\* fail is made before the handler's first write.  A handler starts at a lookup;
\* a step taken at a lookup changes no collection; once a handler has left its
\* lookups it never returns to one and ends with a successful response; so an
\* error response (400, 403 or 404) comes from a lookup, and the request that
\* gets it has left purchase requests, purchase orders, goods receipts,
\* inventory and notifications exactly as they were.
C13_ChecksBeforeWrites ==
    [][\A p \in Procs :
         /\ (pc[p] = "idle" /\ pc'[p] # "idle" /\ req'[p].op \in AllOps) =>
               pc'[p] \in CheckLabels /\ UNCHANGED db
         /\ (Steps(p) /\ pc[p] \in CheckLabels) => UNCHANGED db
         /\ (Steps(p) /\ req[p].op \in AllOps /\ pc[p] \notin CheckLabels) =>
               /\ pc'[p] \notin CheckLabels
               /\ pc'[p] = "idle" => (resp'.p = p /\ resp'.code = 200)
         /\ (req[p].op \in AllOps /\ resp'.p = p /\ resp'.code # 200) =>
               /\ resp'.code \in {400, 403, 404}
               /\ pc[p] \in CheckLabels
               /\ pc'[p] = "idle"
               /\ UNCHANGED db]_vars

\* A create_gr for an unknown purchase order was refused while receipts and
\* inventory records exist.
C13_Witness ==
    /\ resp.code = 404
    /\ resp.detail = "PO not found"
    /\ goodsreceipt # <<>>
    /\ inventory # <<>>

\* The notification the claim names for the operation process p completes with
\* response id rid: <<to_user_id, role, link_type, link_id>>.
C14_Expected(p, rid) ==
    LET r == req[p]
    IN  CASE r.op = "create_pr" ->
               <<purchaserequest[rid[2]].manager_id, None, "PR", rid>>
          [] r.op = "decide_pr" /\ r.approve ->
               <<NoId, "purchasing", "PR", r.pr_id>>
          [] r.op = "decide_pr" /\ ~r.approve ->
               <<Pr(r.pr_id).employee_id, None, "PR", r.pr_id>>
          [] r.op = "create_po" ->
               <<Pr(r.pr_id).employee_id, None, "PO", rid>>
          [] r.op = "create_gr" ->
               <<Pr(Po(r.po_id).pr_id).employee_id, None, "GR", rid>>

\* C14: every successful create_pr, decide_pr, create_po and create_gr appends
\* exactly one unread notification, at the step that responds, and no other
\* step of these handlers, a failing one included, appends or changes any:
\* create_pr -> the purchase request's manager; approve -> role purchasing and
\* no to_user_id; reject -> the purchase request's employee; create_po -> the
\* purchase request's employee, link PO; create_gr -> the employee of the
\* purchase order's purchase request, link GR.  Every notification has exactly
\* one of to_user_id and role set.
C14_OneNotification ==
    /\ [](\A n \in 1..Len(notification) :
            IdSet(notification[n].to_user_id) # StrSet(notification[n].role))
    /\ [][\A p \in Procs :
            IF req[p].op \in AllOps /\ resp'.p = p /\ resp'.code = 200
            THEN LET n == notification'[Len(notification')]
                     e == C14_Expected(p, resp'.id)
                 IN  /\ Len(notification') = Len(notification) + 1
                     /\ SubSeq(notification', 1, Len(notification)) = notification
                     /\ n.to_user_id = e[1]
                     /\ n.role = e[2]
                     /\ n.link_type = e[3]
                     /\ n.link_id = e[4]
                     /\ n.read = FALSE
                     /\ e[4] \in (IF e[3] = "PR" THEN PrIds
                                   ELSE IF e[3] = "PO" THEN PoIds
                                   ELSE {<<"goodsreceipt", g>> : g \in 1..Len(goodsreceipt)})
            ELSE (req[p].op \in AllOps /\ Steps(p)) => notification' = notification]_vars

\* Notifications of all five kinds exist and the last request failed.
C14_Witness ==
    /\ resp.code = 400
    /\ \E n \in 1..Len(notification) : notification[n].role = "purchasing"
    /\ \E n \in 1..Len(notification) : notification[n].link_type = "GR"
    /\ \E n \in 1..Len(notification) : notification[n].link_type = "PO"
    /\ \E n \in 1..Len(notification) :
          notification[n].link_type = "PR" /\ notification[n].to_user_id = Employee
    /\ \E n \in 1..Len(notification) :
          notification[n].link_type = "PR" /\ notification[n].to_user_id = Manager

NotifIds == {<<"notification", n>> : n \in 1..Len(notification)}
NotifContent(n) ==
    <<n.to_user_id, n.role, n.title, n.link_type, n.link_id>>

\* C15: notifications are append-only and their read flag is monotone.  No
\* notification is ever removed; an existing notification changes only at a
\* mark_notification_read for its id, which sets read to true and leaves its
\* target, title and link alone; read never returns to false; marking an id
\* that names no notification, or one already read, succeeds and changes no
\* read flag; list_notifications returns exactly the notifications with read
\* false whose to_user_id is the given user_id (if given) and whose role is the
\* given role (if given).
C15_ReadMonotone ==
    [][/\ Len(notification') >= Len(notification)
       /\ \A n \in 1..Len(notification) :
             /\ notification[n].read => notification'[n].read
             /\ NotifContent(notification'[n]) = NotifContent(notification[n])
             /\ notification'[n] # notification[n] =>
                   /\ notification'[n].read
                   /\ \E p \in Procs :
                         Takes(p, "mark_read") /\ req[p].notif_id = <<"notification", n>>
       /\ \A p \in Procs :
             /\ (Takes(p, "mark_read") /\ oid(req[p].notif_id)) =>
                   /\ resp'.p = p /\ resp'.code = 200
                   /\ Len(notification') = Len(notification)
                   /\ req[p].notif_id \in NotifIds =>
                         notification'[req[p].notif_id[2]].read
                   /\ (\/ req[p].notif_id \notin NotifIds
                       \/ notification[req[p].notif_id[2]].read) =>
                         \A n \in 1..Len(notification) :
                            notification'[n].read = notification[n].read
             /\ Takes(p, "list") =>
                   /\ resp'.p = p /\ resp'.code = 200
                   /\ UNCHANGED db
                   /\ \A id \in NotifIds :
                         id \in resp'.items <=>
                            /\ ~notification[id[2]].read
                            /\ req[p].user_id = NoId
                                  \/ notification[id[2]].to_user_id = req[p].user_id
                            /\ req[p].role = None
                                  \/ notification[id[2]].role = req[p].role
                   /\ resp'.items \subseteq NotifIds]_vars

\* A filtered listing that left out a read notification of the same user.
C15_Witness ==
    /\ "items" \in DOMAIN resp
    /\ resp.items # {}
    /\ \A id \in resp.items : notification[id[2]].to_user_id = Employee
    /\ \E id \in NotifIds \ resp.items :
          notification[id[2]].to_user_id = Employee /\ notification[id[2]].read

\* C16: a purchase order's lines are a snapshot.  The purchase order create_po
\* inserts has as many lines as its purchase request, the k-th with the sku,
\* name, qty and uom of the request's k-th line; no step of any operation
\* removes a purchase order or changes the lines, pr_id or supplier_id of an
\* existing one (only its status changes), nor the lines of an existing
\* purchase request.
C16_Snapshot ==
    [][/\ \A p \in Procs :
             Takes(p, "po_insert") =>
                LET po == purchaseorder'[Len(purchaseorder')]
                    src == Pr(req[p].pr_id).lines
                IN  /\ Len(purchaseorder') = Len(purchaseorder) + 1
                    /\ po.pr_id = req[p].pr_id
                    /\ po.supplier_id = req[p].supplier_id
                    /\ Len(po.lines) = Len(src)
                    /\ \A k \in 1..Len(src) :
                          /\ po.lines[k].sku = src[k].sku
                          /\ po.lines[k].name = src[k].name
                          /\ po.lines[k].qty = src[k].qty
                          /\ po.lines[k].uom = src[k].uom
       /\ Len(purchaseorder') >= Len(purchaseorder)
       /\ \A n \in 1..Len(purchaseorder) :
             /\ purchaseorder'[n].lines = purchaseorder[n].lines
             /\ purchaseorder'[n].pr_id = purchaseorder[n].pr_id
             /\ purchaseorder'[n].supplier_id = purchaseorder[n].supplier_id
             /\ DOMAIN purchaseorder'[n] = {"pr_id", "supplier_id", "lines", "status"}
       /\ Len(purchaserequest') >= Len(purchaserequest)
       /\ \A n \in 1..Len(purchaserequest) :
             purchaserequest'[n].lines = purchaserequest[n].lines]_vars

\* A purchase order of two lines has been received against, after an item was
\* registered and a notification marked read.
C16_Witness ==
    /\ \E po \in PoIds :
          /\ Len(Po(po).lines) = 2
          /\ Po(po).lines[1].sku = "B"
          /\ Po(po).status # "sent"
          /\ Pr(Po(po).pr_id).status = "ordered"
    /\ item # <<>>
    /\ \E id \in NotifIds : notification[id[2]].read

\* Decisions notified for a purchase request: <<approvals, rejections>>.
DecisionNotifs(id) ==
    <<Cardinality({n \in 1..Len(notification) :
          notification[n].link_id = id /\ notification[n].title = "PR Approved"}),
      Cardinality({n \in 1..Len(notification) :
          notification[n].link_id = id /\ notification[n].title = "PR Rejected"})>>

\* C17: decide_pr writes without testing the status again.  A handler that has
\* passed its checks applies its decision whatever the status has become: an
\* approval sets status approved and approved_by and leaves rejected_reason, a
\* rejection sets status rejected and rejected_reason and leaves approved_by;
\* then it emits its notification and answers 200.  So two handlers that both
\* passed the check on a submitted purchase request both apply and both
\* notify, and the purchase request ends with the later write's status and
\* both approved_by and rejected_reason.
C17_BothDecisionsApplied ==
    [][\A p \in Procs :
         /\ Takes(p, "decide_update") =>
               LET old == Pr(req[p].pr_id)
                   new == purchaserequest'[req[p].pr_id[2]]
               IN  IF req[p].approve
                   THEN /\ new.status = "approved"
                        /\ new.approved_by = req[p].manager_id
                        /\ new.rejected_reason = old.rejected_reason
                   ELSE /\ new.status = "rejected"
                        /\ new.rejected_reason =
                              IF req[p].rejected_reason = None THEN ""
                              ELSE req[p].rejected_reason
                        /\ new.approved_by = old.approved_by
         /\ Takes(p, "decide_notify") =>
               /\ Len(notification') = Len(notification) + 1
               /\ notification'[Len(notification')].link_id = req[p].pr_id
               /\ notification'[Len(notification')].title =
                     IF req[p].approve THEN "PR Approved" ELSE "PR Rejected"
               /\ resp'.p = p /\ resp'.code = 200]_vars

\* An approval and a rejection raced: the approval was written last, both
\* fields are set and both notifications exist.
C17_Witness ==
    /\ AllIdle
    /\ \E id \in PrIds :
          /\ Pr(id).status = "approved"
          /\ Pr(id).approved_by = Manager
          /\ Pr(id).rejected_reason = "budget"
          /\ DecisionNotifs(id) = <<1, 1>>

\* C18: create_po inserts and writes without testing the status again.  A
\* handler that has read status approved inserts its purchase order whatever
\* orders already reference the purchase request, and its update sets po_id to
\* its own order whatever po_id was.  So two handlers that both read approved
\* create two purchase orders for the purchase request, whose po_id names the
\* one whose update came last.
C18_BothOrdersCreated ==
    /\ [](\A id \in PrIds : IdSet(Pr(id).po_id) => Pr(id).po_id \in PosOf(id))
    /\ [][\A p \in Procs :
            /\ Takes(p, "po_insert") =>
                  /\ Len(purchaseorder') = Len(purchaseorder) + 1
                  /\ purchaseorder'[Len(purchaseorder')].pr_id = req[p].pr_id
                  /\ loc'[p].new_id = <<"purchaseorder", Len(purchaseorder')>>
            /\ Takes(p, "po_update_pr") =>
                  /\ purchaserequest'[req[p].pr_id[2]].po_id = loc[p].new_id
                  /\ purchaserequest'[req[p].pr_id[2]].status = "ordered"]_vars

\* Two purchase orders reference one purchase request, decided once; the
\* request's po_id names the order inserted first, whose update came last.
C18_Witness ==
    /\ AllIdle
    /\ \E id \in PrIds \ overlap :
          /\ PosOf(id) = {<<"purchaseorder", 1>>, <<"purchaseorder", 2>>}
          /\ Pr(id).po_id = <<"purchaseorder", 1>>
          /\ DecisionNotifs(id) = <<1, 0>>

\* C19: create_gr writes the status it computed from its own scan.  The scan
\* totals the goods receipts stored at that moment; the update sets received
\* iff that total reaches the ordered total, whatever has been stored since.
\* So a handler that scanned before another's receipt was stored can write
\* partially_received last, although the stored receipts reach the ordered
\* total.  With positive quantities the stale status is never received: once
\* all handlers have finished, received implies R >= T.
C19_StatusFromOwnScan ==
    /\ []((AllIdle /\ ValidReceipts) =>
            \A po \in PoIds :
                /\ HasReceipt(po) => Po(po).status \in {"received", "partially_received"}
                /\ Po(po).status = "received" => ReceivedTotal(po) >= OrderedTotal(po))
    /\ [][\A p \in Procs :
            /\ Takes(p, "gr_scan") => loc'[p].total = ReceivedTotal(req[p].po_id)
            /\ Takes(p, "gr_update_po") =>
                  purchaseorder'[req[p].po_id[2]].status =
                     IF loc[p].total >= OrderedTotal(req[p].po_id)
                     THEN "received" ELSE "partially_received"]_vars

\* Both handlers have finished, the receipts reach the ordered total and the
\* status is partially_received.
C19_Witness ==
    /\ AllIdle
    /\ ValidReceipts
    /\ \E po \in PoIds :
          /\ Po(po).status = "partially_received"
          /\ OrderedTotal(po) > 0
          /\ ReceivedTotal(po) >= OrderedTotal(po)

InventoryOf(sku) == {k \in 1..Len(inventory) : inventory[k].sku = sku}

\* C20: under any interleaving of create_item and create_gr handlers, in every
\* state there is at most one inventory record per sku.
C20_Original == \A sku \in Skus : Cardinality(InventoryOf(sku)) <= 1

TypeOK ==
    /\ \A p \in Procs : pc[p] = "idle" <=> req[p] = NoReq
    /\ Len(purchaserequest) + Len(purchaseorder) + Len(goodsreceipt) <= MaxDocs
====
